---------------------------- MODULE Spec2Model ----------------------------
(***************************************************************************)
(* A model of utils.py: the Logger context manager, the stop-file poll,    *)
(* the checkpoint backup rotation, the moving average and the XKCD colour  *)
(* generator.  Each component has its own specification; the variables of  *)
(* the other components stay at their initial values.                      *)
(***************************************************************************)
EXTENDS Integers, Sequences, FiniteSets, TLC

VARIABLES
    \* ---- Logger (utils.py 28-54)
    file,        \* self.file: None, or the handle returned by open()
    handles,     \* every stream open() has returned: [open, closes, buf, gc]
    disk,        \* content of the log file self.name, a sequence of characters/tokens
    console,     \* what print() has written to stdout, one entry per line
    scopes,      \* the `with` blocks that are active, as the handle each one opened
    calls,       \* the lines passed to log() inside the scope entered last
    mark,        \* Len(console) when the scope entered last was entered
    nested,      \* the scope entered last was entered inside another scope of this Logger
    last,        \* the call made last: [op, outcome, inScope]
    \* ---- user_has_requested_stop (utils.py 76-91)
    fs,                 \* the paths that exist as files
    stopfile,           \* the argument of user_has_requested_stop
    pc,                 \* where the poll is: "idle", "checked", "unlinked"
    stopfile_detected,  \* the local variable of the poll
    result,             \* what the poll made last returned: "none" while it runs
    deleted,            \* the running poll has unlinked the file
    fsAtCall,           \* fs when the poll made last began
    quiet,              \* no other process has created a file since that poll began
    pending,            \* the stop file was created and no poll has returned true since
    \* ---- ensure_we_can_save (utils.py 130-143)
    ckpt,               \* the checkpoint pair: [pth, bak], each <<>> (absent) or <<content>>
    ckpt0,              \* the pair when the call made last began
    saveOutcome,        \* how that call ended: "none" before the first call
    runLen,             \* successful calls made in a row with nothing in between, up to 2
    \* ---- get_moving_average (utils.py 156-175)
    xs,                 \* the argument xs
    ys,                 \* the argument ys
    window_size,        \* the argument window_size
    avg,                \* [done, x1s, y1s]: the pair returned, once the call is done
    \* ---- generate_xkcd_colours (utils.py 94-114)
    rows,               \* the lines of the colour file, each a sequence of characters
    filter,             \* the name of the filter predicate passed
    rowIdx,             \* the lines the generator has read
    yielded,            \* the values the generator has yielded, in order
    genStatus           \* "running", or how the generator ended: "exhausted", "ValueError"

loggerVars == <<file, handles, disk, console, scopes, calls, mark, nested, last>>
stopVars == <<fs, stopfile, pc, stopfile_detected, result, deleted, fsAtCall, quiet, pending>>

saveVars == <<ckpt, ckpt0, saveOutcome, runLen>>

avgVars == <<xs, ys, window_size, avg>>

colourVars == <<rows, filter, rowIdx, yielded, genStatus>>

vars == <<loggerVars, stopVars, saveVars, avgVars, colourVars>>

-----------------------------------------------------------------------------
(* Bounds *)
MaxOpens == 3     \* calls of open() in a run
MaxLogs  == 3     \* calls of log() in a run
MaxDepth == 2     \* `with` blocks of one Logger active at once

Lines == {"a", "b"}      \* the lines a caller logs

MaxContent == 3   \* checkpoint files hold a content in 1..MaxContent

MaxLen    == 5    \* length of xs and ys
MaxWindow == 5    \* window_size
MaxY      == 2    \* the values of ys are in 1..MaxY

MaxRows   == 3    \* lines of the colour file

-----------------------------------------------------------------------------
(* Logger *)

None == 0                \* self.file = None; handles are numbered from 1

Range(s) == {s[i] : i \in DOMAIN s}

\* file.write(s): the text goes to the stream's buffer
FileWrite(st, h, s) ==
    [st EXCEPT !.handles[h].buf = @ \o s]

\* flush() forgotten: the text stays in the buffer
FileFlush_Buffered(st, h) ==
    st

\* file.flush(): the buffer is appended to the file on disk
FileFlush(st, h) ==
    [handles |-> [st.handles EXCEPT ![h].buf = <<>>],
     disk    |-> st.disk \o st.handles[h].buf]

\* file.close(): flushes and closes; closing a closed stream does nothing
FileClose(st, h) ==
    IF st.handles[h].open
      THEN LET f == FileFlush(st, h)
           IN  [f EXCEPT !.handles[h].open = FALSE, !.handles[h].closes = @ + 1]
      ELSE [st EXCEPT !.handles[h].closes = @ + 1]

\* open(self.name, 'w'): a new stream, the file truncated
FileOpen(st) ==
    [handles |-> Append(st.handles, [open |-> TRUE, closes |-> 0, buf |-> <<>>, gc |-> FALSE]),
     disk    |-> <<>>]

Streams == [handles |-> handles, disk |-> disk]

\* Logger.__init__: no file is opened
InitLogger ==
    /\ file = None
    /\ handles = <<>>
    /\ disk = <<>>
    /\ console = <<>>
    /\ scopes = <<>>
    /\ calls = <<>>
    /\ mark = 0
    /\ nested = FALSE
    /\ last = [op |-> "init", outcome |-> "ok", inScope |-> FALSE]

\* Logger.__enter__, called by `with`: open() may be refused by the file system,
\* and then the block is not entered
Enter(opened) ==
    /\ Len(handles) < MaxOpens
    /\ Len(scopes) < MaxDepth
    /\ IF opened
         THEN LET st == FileOpen(Streams)
              IN  /\ handles' = st.handles
                  /\ disk' = st.disk
                  /\ file' = Len(st.handles)
                  /\ scopes' = Append(scopes, Len(st.handles))
                  /\ calls' = <<>>
                  /\ mark' = Len(console)
                  /\ nested' = (scopes # <<>>)
                  /\ last' = [op |-> "enter", outcome |-> "ok", inScope |-> scopes # <<>>]
         ELSE /\ last' = [op |-> "enter", outcome |-> "OSError", inScope |-> scopes # <<>>]
              /\ UNCHANGED <<file, handles, disk, scopes, calls, mark, nested>>
    /\ UNCHANGED console
    /\ UNCHANGED <<stopVars, saveVars, avgVars, colourVars>>

\* __exit__ that also forgets the stream: self.file = None after close()
Exit_ResetsFile(exc) ==
    /\ scopes # <<>>
    /\ IF file # None
         THEN LET st == FileClose(Streams, file)
              IN  /\ handles' = st.handles
                  /\ disk' = st.disk
         ELSE UNCHANGED <<handles, disk>>
    /\ file' = None
    /\ scopes' = SubSeq(scopes, 1, Len(scopes) - 1)
    /\ last' = [op |-> "exit", outcome |-> IF exc THEN "propagated" ELSE "ok",
                inScope |-> TRUE]
    /\ UNCHANGED <<console, calls, mark, nested>>
    /\ UNCHANGED <<stopVars, saveVars, avgVars, colourVars>>

\* Logger.__exit__, called by `with` when the block is left, normally
\* (exc = FALSE) or by an exception (exc = TRUE); it returns None, so the
\* exception propagates
Exit(exc) ==
    /\ scopes # <<>>
    /\ IF file # None
         THEN LET st == FileClose(Streams, file)
              IN  /\ handles' = st.handles
                  /\ disk' = st.disk
         ELSE UNCHANGED <<handles, disk>>
    /\ scopes' = SubSeq(scopes, 1, Len(scopes) - 1)
    /\ last' = [op |-> "exit", outcome |-> IF exc THEN "propagated" ELSE "ok",
                inScope |-> TRUE]
    /\ UNCHANGED <<file, console, calls, mark, nested>>
    /\ UNCHANGED <<stopVars, saveVars, avgVars, colourVars>>

\* Logger.log: print, then write and flush; self.file.write fails on None
\* (AttributeError) and on a closed stream (ValueError)
Log(line) ==
    /\ Len(console) < MaxLogs
    /\ console' = Append(console, line)
    /\ calls' = IF scopes # <<>> THEN Append(calls, line) ELSE calls
    /\ IF file = None
         THEN /\ last' = [op |-> "log", outcome |-> "AttributeError", inScope |-> scopes # <<>>]
              /\ UNCHANGED <<handles, disk>>
         ELSE IF ~handles[file].open
           THEN /\ last' = [op |-> "log", outcome |-> "ValueError", inScope |-> scopes # <<>>]
                /\ UNCHANGED <<handles, disk>>
           ELSE LET st == FileFlush(FileWrite(Streams, file, <<line, "\n">>), file)
                IN  /\ handles' = st.handles
                    /\ disk' = st.disk
                    /\ last' = [op |-> "log", outcome |-> "ok", inScope |-> scopes # <<>>]
    /\ UNCHANGED <<file, scopes, mark, nested>>
    /\ UNCHANGED <<stopVars, saveVars, avgVars, colourVars>>

\* A stream that self.file no longer refers to may be closed by the runtime's
\* finalizer at any time, or never
Finalize(h) ==
    /\ h \in DOMAIN handles
    /\ h # file
    /\ handles[h].open
    /\ LET st == FileFlush(Streams, h)
       IN  /\ handles' = [st.handles EXCEPT ![h].open = FALSE, ![h].gc = TRUE]
           /\ disk' = st.disk
    /\ UNCHANGED <<file, console, scopes, calls, mark, nested, last>>
    /\ UNCHANGED <<stopVars, saveVars, avgVars, colourVars>>

NextLogger ==
    \/ \E opened \in BOOLEAN : Enter(opened)
    \/ \E exc \in BOOLEAN : Exit(exc)
    \/ \E line \in Lines : Log(line)
    \/ \E h \in 1..MaxOpens : Finalize(h)

-----------------------------------------------------------------------------
(* user_has_requested_stop *)

Paths == {"stop", "other"}       \* the file names of the model

\* is_file() that never sees the file
IsFile_Blind(f, p) ==
    FALSE

\* Path.is_file()
IsFile(f, p) ==
    p \in f

\* Path.unlink(): the file system without the file
Unlink(f, p) ==
    f \ {p}

\* Before the first poll: any files may exist; the stop file is at a known path
InitStop ==
    /\ fs \in SUBSET Paths
    /\ stopfile \in Paths
    /\ pc = "idle"
    /\ stopfile_detected = FALSE
    /\ result = "none"
    /\ deleted = FALSE
    /\ fsAtCall = fs
    /\ quiet = TRUE
    /\ pending = (stopfile \in fs)

\* stopfile_detected = stop_path.is_file()
PollCheck ==
    /\ pc = "idle"
    /\ stopfile_detected' = IsFile(fs, stopfile)
    /\ pc' = "checked"
    /\ result' = "none"
    /\ deleted' = FALSE
    /\ fsAtCall' = fs
    /\ quiet' = TRUE
    /\ UNCHANGED <<fs, stopfile, pending>>
    /\ UNCHANGED <<loggerVars, saveVars, avgVars, colourVars>>

\* the true branch that returns without unlinking
PollUnlink_KeepsFile ==
    /\ pc = "checked"
    /\ stopfile_detected
    /\ pc' = "unlinked"
    /\ UNCHANGED <<fs, stopfile, stopfile_detected, result, deleted, fsAtCall, quiet, pending>>
    /\ UNCHANGED <<loggerVars, saveVars, avgVars, colourVars>>

\* if stopfile_detected: print(...); stop_path.unlink(), which raises
\* FileNotFoundError when the file is not there
PollUnlink ==
    /\ pc = "checked"
    /\ stopfile_detected
    /\ IF stopfile \in fs
         THEN /\ fs' = Unlink(fs, stopfile)
              /\ deleted' = TRUE
              /\ pc' = "unlinked"
              /\ UNCHANGED result
         ELSE /\ pc' = "idle"
              /\ result' = "FileNotFoundError"
              /\ UNCHANGED <<fs, deleted>>
    /\ UNCHANGED <<stopfile, stopfile_detected, fsAtCall, quiet, pending>>
    /\ UNCHANGED <<loggerVars, saveVars, avgVars, colourVars>>

\* return stopfile_detected
PollReturn ==
    /\ \/ pc = "checked" /\ ~stopfile_detected
       \/ pc = "unlinked"
    /\ pc' = "idle"
    /\ result' = IF stopfile_detected THEN "true" ELSE "false"
    /\ pending' = IF stopfile_detected THEN FALSE ELSE pending
    /\ UNCHANGED <<fs, stopfile, stopfile_detected, deleted, fsAtCall, quiet>>
    /\ UNCHANGED <<loggerVars, saveVars, avgVars, colourVars>>

\* Another process creates a file, at any moment
Create(p) ==
    /\ fs' = fs \cup {p}
    /\ quiet' = FALSE
    /\ pending' = IF p = stopfile THEN TRUE ELSE pending
    /\ UNCHANGED <<stopfile, pc, stopfile_detected, result, deleted, fsAtCall>>
    /\ UNCHANGED <<loggerVars, saveVars, avgVars, colourVars>>

NextPoll ==
    \/ PollCheck
    \/ PollUnlink
    \/ PollReturn

NextStop ==
    \/ NextPoll
    \/ \E p \in Paths : Create(p)

-----------------------------------------------------------------------------
(* ensure_we_can_save *)

Contents == 1..MaxContent
Files == {<<>>} \cup {<<c>> : c \in Contents}

\* unlink() that leaves the backup where it is
RemoveBackup_Keeps(f) ==
    f

\* checkpoint_path_bak.unlink()
RemoveBackup(f) ==
    [f EXCEPT !.bak = <<>>]

\* a rename that copies: the primary stays
Rename_Copies(f) ==
    [f EXCEPT !.bak = f.pth]

\* checkpoint_path.rename(checkpoint_path_bak)
Rename(f) ==
    [pth |-> <<>>, bak |-> f.pth]

\* Any checkpoint pair, no call made
InitSave ==
    /\ ckpt \in [pth : Files, bak : Files]
    /\ ckpt0 = ckpt
    /\ saveOutcome = "none"
    /\ runLen = 0

\* ensure_we_can_save(base): unlink() and rename() may each be refused by the
\* file system (OSError), which ends the call there
EnsureWeCanSave(unlinkOk, renameOk) ==
    /\ ckpt0' = ckpt
    /\ IF ckpt.pth # <<>>
         THEN IF ckpt.bak # <<>> /\ ~unlinkOk
                THEN /\ ckpt' = ckpt
                     /\ saveOutcome' = "unlink refused"
                ELSE LET f == IF ckpt.bak # <<>> THEN RemoveBackup(ckpt) ELSE ckpt
                     IN  IF renameOk
                           THEN /\ ckpt' = Rename(f)
                                /\ saveOutcome' = "ok"
                           ELSE /\ ckpt' = f
                                /\ saveOutcome' = "rename refused"
         ELSE /\ ckpt' = ckpt
              /\ saveOutcome' = "ok"
    /\ runLen' = IF saveOutcome' = "ok" THEN (IF runLen = 0 THEN 1 ELSE 2) ELSE 0
    /\ UNCHANGED <<loggerVars, stopVars, avgVars, colourVars>>

\* The caller saves a new checkpoint as base.pth
SaveCheckpoint(c) ==
    /\ ckpt' = [ckpt EXCEPT !.pth = <<c>>]
    /\ saveOutcome' = "none"
    /\ runLen' = 0
    /\ UNCHANGED ckpt0
    /\ UNCHANGED <<loggerVars, stopVars, avgVars, colourVars>>

NextSave ==
    \/ \E unlinkOk \in BOOLEAN, renameOk \in BOOLEAN : EnsureWeCanSave(unlinkOk, renameOk)
    \/ \E c \in Contents : SaveCheckpoint(c)

-----------------------------------------------------------------------------
(* get_moving_average *)

Min(a, b) == IF a < b THEN a ELSE b
Max(a, b) == IF a > b THEN a ELSE b

\* The position a Python slice bound i stands for in a sequence of length n
PyIndex(i, n) ==
    IF i < 0 THEN Max(n + i, 0) ELSE Min(i, n)

\* s[i:]
SliceFrom(s, i) ==
    SubSeq(s, PyIndex(i, Len(s)) + 1, Len(s))

\* s[:j]
SliceTo(s, j) ==
    SubSeq(s, 1, PyIndex(j, Len(s)))

RECURSIVE Sum(_)
Sum(s) ==
    IF s = <<>> THEN 0 ELSE Head(s) + Sum(Tail(s))

\* np.convolve(v, np.ones(w) / w, mode='valid') for non-empty v and w >= 1:
\* one value per position where the shorter of the two lies inside the longer,
\* each the sum of the products v[k] * (1/w), kept as the fraction [num, den]
ConvolveValid(v, w) ==
    LET n == Len(v)
    IN  IF n >= w
          THEN [i \in 1..(n - w + 1) |-> [num |-> Sum(SubSeq(v, i, i + w - 1)), den |-> w]]
          ELSE [i \in 1..(w - n + 1) |-> [num |-> Sum(v), den |-> w]]

\* The body of get_moving_average
GetMovingAverage(x, y, w) ==
    LET y1s        == ConvolveValid(y, w)
        skip       == (Len(y) - Len(y1s)) \div 2
        x1s        == SliceFrom(x, skip)
        tail_count == Len(x1s) - Len(y1s)
    IN  [done |-> TRUE, x1s |-> SliceTo(x1s, 0 - tail_count), y1s |-> y1s]

\* The arguments of one call: xs and ys of the same length, xs increasing
InitAverage ==
    /\ \E n \in 1..MaxLen :
          /\ ys \in [1..n -> 1..MaxY]
          /\ \E x0 \in {0, 10} : xs = [i \in 1..n |-> x0 + i]
    /\ window_size \in 1..MaxWindow
    /\ avg = [done |-> FALSE, x1s |-> <<>>, y1s |-> <<>>]

CallGetMovingAverage ==
    /\ ~avg.done
    /\ avg' = GetMovingAverage(xs, ys, window_size)
    /\ UNCHANGED <<xs, ys, window_size>>
    /\ UNCHANGED <<loggerVars, stopVars, saveVars, colourVars>>

NextAverage ==
    CallGetMovingAverage

-----------------------------------------------------------------------------
(* generate_xkcd_colours *)

\* The lines a colour file is made of here, as read from the file (each ends
\* with its newline)
RowRed     == <<"r", "e", "d", " ", "#", "f", "f", "0", "0", "0", "0", "\n">>
RowGreen   == <<"g", "r", "e", "e", "n", " ", "#", "0", "0", "f", "f", "0", "0", "\n">>
RowSky     == <<"s", "k", "y", " ", "b", "l", "u", "e", "\t", "#", "7", "5", "b", "b", "f", "d", "\t", "\n">>
RowComment == <<"#", " ", "b", "y", " ", "r", "a", "n", "k", "\n">>
RowBlank   == <<"\n">>
RowBad     == <<"b", "a", "d", " ", "#", "z", "z", "\n">>

Catalogue == {RowRed, RowGreen, RowSky, RowComment, RowBlank, RowBad}

Filters == {"all", "not pure red", "some blue"}

Whitespace == {" ", "\t", "\n"}

\* str.strip()
RECURSIVE LStrip(_)
LStrip(s) ==
    IF s # <<>> /\ Head(s) \in Whitespace THEN LStrip(Tail(s)) ELSE s

RECURSIVE RStrip(_)
RStrip(s) ==
    IF s # <<>> /\ s[Len(s)] \in Whitespace THEN RStrip(SubSeq(s, 1, Len(s) - 1)) ELSE s

Strip(s) == RStrip(LStrip(s))

\* Where a match of \s+# that starts at i ends (the index of the #), 0 if none does
RECURSIVE MatchEnd(_, _)
MatchEnd(s, i) ==
    IF i > Len(s) \/ s[i] \notin Whitespace THEN 0
    ELSE IF i + 1 <= Len(s) /\ s[i + 1] = "#" THEN i + 1
    ELSE MatchEnd(s, i + 1)

\* re.split(r'\s+#', s), scanning from i with the current part starting at from
RECURSIVE SplitFrom(_, _, _)
SplitFrom(s, from, i) ==
    IF i > Len(s) THEN <<SubSeq(s, from, Len(s))>>
    ELSE IF MatchEnd(s, i) # 0
           THEN <<SubSeq(s, from, i - 1)>> \o SplitFrom(s, MatchEnd(s, i) + 1, MatchEnd(s, i) + 1)
           ELSE SplitFrom(s, from, i + 1)

Split(s) == SplitFrom(s, 1, 1)

HexDigits == {"0", "1", "2", "3", "4", "5", "6", "7", "8", "9",
              "a", "b", "c", "d", "e", "f", "A", "B", "C", "D", "E", "F"}

HexValue(c) ==
    CASE c = "0" -> 0 [] c = "1" -> 1 [] c = "2" -> 2 [] c = "3" -> 3 [] c = "4" -> 4
      [] c = "5" -> 5 [] c = "6" -> 6 [] c = "7" -> 7 [] c = "8" -> 8 [] c = "9" -> 9
      [] c \in {"a", "A"} -> 10 [] c \in {"b", "B"} -> 11 [] c \in {"c", "C"} -> 12
      [] c \in {"d", "D"} -> 13 [] c \in {"e", "E"} -> 14 [] c \in {"f", "F"} -> 15

RECURSIVE HexNumber(_)
HexNumber(s) ==
    IF s = <<>> THEN 0 ELSE 16 * HexNumber(SubSeq(s, 1, Len(s) - 1)) + HexValue(s[Len(s)])

\* int(s, 16) for the characters of the catalogue (no sign, prefix or underscore
\* occurs in it): surrounding whitespace is ignored; [ok, value], ok = FALSE
\* where int raises ValueError
IntBase16(s) ==
    LET t == Strip(s)
    IN  IF t # <<>> /\ \A i \in DOMAIN t : t[i] \in HexDigits
          THEN [ok |-> TRUE, value |-> HexNumber(t)]
          ELSE [ok |-> FALSE, value |-> 0]

\* The filter predicates a caller passes
Filter(name, R, G, B) ==
    CASE name = "all" -> TRUE
      [] name = "not pure red" -> ~(R = 255 /\ G = 0 /\ B = 0)
      [] name = "some blue" -> B > 0

Xkcd == <<"x", "k", "c", "d", ":">>

\* The body of the loop for one row: "skip", "yield" with the value, or "raise"
\* where int() raises ValueError
Row(row, f) ==
    LET parts == Split(Strip(row))
    IN  IF Len(parts) > 1
          THEN LET n == IntBase16(parts[2])
               IN  IF ~n.ok THEN [out |-> "raise", value |-> <<>>]
                   ELSE LET rgb  == n.value
                            B    == rgb % 256
                            rest == (rgb - B) \div 256
                            G    == rest % 256
                            R    == (rest - G) \div 256
                        IN  IF Filter(f, R, G, B)
                              THEN [out |-> "yield", value |-> Xkcd \o parts[1]]
                              ELSE [out |-> "skip", value |-> <<>>]
          ELSE [out |-> "skip", value |-> <<>>]

\* The generator resumed after i rows: it runs to its next yield, to the end of
\* the file, or to the row where it raises; [idx, out, value]
RECURSIVE Resume(_, _, _)
Resume(rs, f, i) ==
    IF i >= Len(rs) THEN [idx |-> i, out |-> "stop", value |-> <<>>]
    ELSE LET r == Row(rs[i + 1], f)
         IN  IF r.out = "skip" THEN Resume(rs, f, i + 1)
             ELSE [idx |-> i + 1, out |-> r.out, value |-> r.value]

\* A colour file and a filter; the generator has been created and not started
InitColours ==
    /\ \E n \in 0..MaxRows : rows \in [1..n -> Catalogue]
    /\ filter \in Filters
    /\ rowIdx = 0
    /\ yielded = <<>>
    /\ genStatus = "running"

\* next() on the generator
GenNext ==
    /\ genStatus = "running"
    /\ LET r == Resume(rows, filter, rowIdx)
       IN  /\ rowIdx' = r.idx
           /\ yielded' = IF r.out = "yield" THEN Append(yielded, r.value) ELSE yielded
           /\ genStatus' = CASE r.out = "yield" -> "running"
                             [] r.out = "stop" -> "exhausted"
                             [] r.out = "raise" -> "ValueError"
    /\ UNCHANGED <<rows, filter>>
    /\ UNCHANGED <<loggerVars, stopVars, saveVars, avgVars>>

NextColours ==
    GenNext

-----------------------------------------------------------------------------
(* Specifications *)

\* The state of a component while another component's specification runs
StopOff ==
    /\ fs = {}
    /\ stopfile = "stop"
    /\ pc = "idle"
    /\ stopfile_detected = FALSE
    /\ result = "none"
    /\ deleted = FALSE
    /\ fsAtCall = {}
    /\ quiet = TRUE
    /\ pending = FALSE

SaveOff ==
    /\ ckpt = [pth |-> <<>>, bak |-> <<>>]
    /\ ckpt0 = ckpt
    /\ saveOutcome = "none"
    /\ runLen = 0

AverageOff ==
    /\ xs = <<>>
    /\ ys = <<>>
    /\ window_size = 1
    /\ avg = [done |-> FALSE, x1s |-> <<>>, y1s |-> <<>>]

ColoursOff ==
    /\ rows = <<>>
    /\ filter = "all"
    /\ rowIdx = 0
    /\ yielded = <<>>
    /\ genStatus = "running"

Init == InitLogger /\ StopOff /\ SaveOff /\ AverageOff /\ ColoursOff
Spec == Init /\ [][NextLogger]_vars

InitStopOnly == InitLogger /\ InitStop /\ SaveOff /\ AverageOff /\ ColoursOff
SpecStop == InitStopOnly /\ [][NextStop]_vars

InitSaveOnly == InitLogger /\ StopOff /\ InitSave /\ AverageOff /\ ColoursOff
SpecSave == InitSaveOnly /\ [][NextSave]_vars

InitAverageOnly == InitLogger /\ StopOff /\ SaveOff /\ InitAverage /\ ColoursOff
SpecAverage == InitAverageOnly /\ [][NextAverage]_vars

InitColoursOnly == InitLogger /\ StopOff /\ SaveOff /\ AverageOff /\ InitColours
SpecColours == InitColoursOnly /\ [][NextColours]_vars

\* The running process keeps polling
SpecStopFair == SpecStop /\ WF_vars(NextPoll)

-----------------------------------------------------------------------------
(* Claims about the Logger *)

\* C1: every stream whose scope has been left was closed exactly once, by the
\* exit of that scope, and is not open any more
C1_ScopeClosesItsFileOnce ==
    \A h \in DOMAIN handles :
        h \notin Range(scopes) =>
            /\ ~handles[h].open
            /\ handles[h].closes = 1
            /\ ~handles[h].gc

\* C2: self.file is not None exactly while a scope is active
C2_FileAbsentOutsideScope ==
    (file # None) <=> (scopes # <<>>)

\* C2 (amended): self.file is None until the first successful entry and never
\* afterwards; it refers to the stream opened last, which is open right after
\* a successful entry and open only while a scope is active; after an exit
\* self.file still refers to the stream, which is closed
C2_FileAttribute ==
    /\ (file = None) <=> (handles = <<>>)
    /\ file # None => file = Len(handles)
    /\ (file # None /\ handles[file].open) => scopes # <<>>
    /\ (last.op = "enter" /\ last.outcome = "ok") => handles[file].open
    /\ last.op = "exit" => (file # None /\ ~handles[file].open)

C2_Witness ==
    /\ last.op = "exit"
    /\ scopes = <<>>
    /\ file # None
    /\ ~handles[file].open

\* The file content log() produces for a sequence of lines: each line, then a newline
RECURSIVE Encode(_)
Encode(ls) ==
    IF ls = <<>> THEN <<>> ELSE <<Head(ls), "\n">> \o Encode(Tail(ls))

\* C3: in a scope that is the only active one of its Logger, after every call
\* of log and after the scope is left, the file holds exactly the lines logged
\* in the scope, in order, each followed by a newline, and the console has
\* received the same lines in the same order
C3_FileAndConsoleHoldTheLines ==
    ~nested =>
        /\ disk = Encode(calls)
        /\ Len(console) >= mark + Len(calls)
        /\ SubSeq(console, mark + 1, mark + Len(calls)) = calls

C3_Witness ==
    /\ ~nested
    /\ last.op = "exit"
    /\ scopes = <<>>
    /\ Len(calls) = 2
    /\ calls[1] # calls[2]
    /\ disk = <<calls[1], "\n", calls[2], "\n">>

\* C4: a call of log outside an active scope ends in InvalidState
C4_LogOutsideScopeIsInvalidState ==
    (last.op = "log" /\ ~last.inScope) => last.outcome = "InvalidState"

-----------------------------------------------------------------------------
(* Claims about user_has_requested_stop *)

\* C7: when no other process creates a file during the call, the poll returns
\* true exactly when the stop file existed at the call; when it returns true
\* the file is gone and nothing else has changed, and when it returns false
\* the file system is unchanged
C7_PollAlone ==
    (pc = "idle" /\ result # "none" /\ quiet) =>
        /\ result \in {"true", "false"}
        /\ (result = "true") <=> (stopfile \in fsAtCall)
        /\ result = "true" => (stopfile \notin fs /\ fs = fsAtCall \ {stopfile})
        /\ result = "false" => fs = fsAtCall

C7_Witness ==
    /\ pc = "idle"
    /\ quiet
    /\ result = "true"
    /\ stopfile = "stop"
    /\ fsAtCall = {"stop", "other"}
    /\ fs = {"other"}

C10_Safe ==
    /\ result # "FileNotFoundError"
    /\ result = "true" => deleted
    /\ (pc = "idle" /\ result # "none" /\ stopfile \in fsAtCall) => result = "true"

\* C10: with another process creating the stop file at any moment, no poll
\* fails, a poll that returns true has deleted the file, a poll that begins
\* while the file exists returns true, and while the process keeps polling
\* every creation of the stop file is followed by a poll that returns true
C10_PollWithCreator ==
    /\ []C10_Safe
    /\ pending ~> ~pending

\* the stop file is created again between the unlink and the return
C10_Witness ==
    /\ pc = "idle"
    /\ result = "true"
    /\ deleted
    /\ ~quiet
    /\ stopfile \in fs
    /\ pending

-----------------------------------------------------------------------------
(* Claims about ensure_we_can_save *)

\* C5: after a call that returns, if base.pth was present it is absent and
\* base.bak holds what the primary held (the old backup is gone); if base.pth
\* was absent both files are as before; so a second call made directly after
\* a first changes nothing
C5_Rotation ==
    saveOutcome = "ok" =>
        /\ ckpt0.pth # <<>> => (ckpt.pth = <<>> /\ ckpt.bak = ckpt0.pth)
        /\ ckpt0.pth = <<>> => ckpt = ckpt0
        /\ runLen = 2 => ckpt = ckpt0

C5_Witness ==
    /\ saveOutcome = "ok"
    /\ ckpt0 = [pth |-> <<1>>, bak |-> <<2>>]
    /\ ckpt = [pth |-> <<>>, bak |-> <<1>>]

\* C6: a call that fails leaves both files exactly as they were
C6_FailureChangesNothing ==
    saveOutcome \in {"unlink refused", "rename refused"} => ckpt = ckpt0

\* C6 (amended): a call that fails leaves base.pth exactly as it was; base.bak
\* is as it was when its deletion was refused, and is absent when the rename
\* was refused (a backup that existed is lost)
C6_FailureKeepsPrimary ==
    /\ saveOutcome \in {"unlink refused", "rename refused"} =>
           (ckpt.pth = ckpt0.pth /\ ckpt.pth # <<>>)
    /\ saveOutcome = "unlink refused" => (ckpt.bak = ckpt0.bak /\ ckpt.bak # <<>>)
    /\ saveOutcome = "rename refused" => ckpt.bak = <<>>

C6_Witness ==
    /\ saveOutcome = "rename refused"
    /\ ckpt0 = [pth |-> <<1>>, bak |-> <<2>>]
    /\ ckpt = [pth |-> <<1>>, bak |-> <<>>]

-----------------------------------------------------------------------------
(* Claims about get_moving_average *)

\* C8: for xs and ys of the same length n and an odd window_size from 1 to n,
\* x1s and y1s both have n - window_size + 1 elements and x1s is the slice of
\* xs that starts at index (window_size - 1) / 2
C8_TrimmedToTheAverage ==
    (avg.done /\ window_size % 2 = 1 /\ window_size <= Len(ys)) =>
        LET n    == Len(ys)
            keep == n - window_size + 1
            from == (window_size - 1) \div 2
        IN  /\ Len(avg.y1s) = keep
            /\ Len(avg.x1s) = keep
            /\ avg.x1s = SubSeq(xs, from + 1, from + keep)

-----------------------------------------------------------------------------
(* Claims about generate_xkcd_colours *)

\* A line of the shape <name>, whitespace, #, hex value: where its # is, 0 if
\* the line has another shape
HashOfColourLine(s) ==
    LET js == {j \in 2..Len(s) : s[j] = "#" /\ s[j - 1] \in Whitespace}
    IN  IF js = {} THEN 0
        ELSE LET j == CHOOSE k \in js : \A m \in js : k <= m
             IN  IF j < Len(s) /\ \A i \in (j + 1)..Len(s) : s[i] \in HexDigits
                   THEN j ELSE 0

\* The identifiers the claim expects from the lines rs under filter f
RECURSIVE Expected(_, _)
Expected(rs, f) ==
    IF rs = <<>> THEN <<>>
    ELSE LET s == Strip(Head(rs))
             j == HashOfColourLine(s)
             v == HexNumber(SubSeq(s, j + 1, Len(s)))
         IN  (IF j # 0 /\ Filter(f, (v \div 65536) % 256, (v \div 256) % 256, v % 256)
                THEN <<Xkcd \o RStrip(SubSeq(s, 1, j - 1))>>
                ELSE <<>>) \o Expected(Tail(rs), f)

\* C9: the generator raises no error on any line and, once exhausted, has
\* yielded exactly the identifiers of the colour lines that pass the filter, in
\* file order
C9_YieldsTheColourLines ==
    /\ genStatus # "ValueError"
    /\ genStatus = "exhausted" => yielded = Expected(rows, filter)

=============================================================================
